---- MODULE Spec2Model ----
(***************************************************************************)
(* CTFd/config.py: resolution of config.ini and the environment into the   *)
(* Config object.  Python strings are sequences of one-character strings,  *)
(* Python values are tagged records, a raised exception is a value that    *)
(* every operator passes on unchanged.                                      *)
(***************************************************************************)
EXTENDS Integers, Sequences, FiniteSets, TLC

VARIABLES ini, env, fs, pc, cfg, items, exc, keys, rewrote, run, arg, res

vars == <<ini, env, fs, pc, cfg, items, exc, keys, rewrote, run, arg, res>>

(* ------------------------------ bounds -------------------------------- *)

\* longest string drawn from an alphabet for a direct call of a coercer
MaxLen == 3
\* number of times the process is started against the same files
MaxRuns == 2
\* number of distinct values os.urandom is allowed to return
NumSecrets == 2

(* --------------------------- Python values ---------------------------- *)

PyStr(s) == [t |-> "str", s |-> s]
PyInt(i) == [t |-> "int", i |-> i]
PyFloat(w, f) == [t |-> "float", w |-> w, f |-> f]
PyBool(b) == [t |-> "bool", b |-> b]
PyList(l) == [t |-> "list", l |-> l]
PyBytes(id, len) == [t |-> "bytes", id |-> id, len |-> len]
None == [t |-> "None"]
Raise(e) == [t |-> "raise", e |-> e]

IsRaise(v) == v.t = "raise"
IsStr(v) == v.t = "str"

EmptyStr == PyStr(<<>>)

\* bool(v): Python truthiness
Truthy(v) ==
  CASE v.t = "str" -> v.s # <<>>
    [] v.t = "int" -> v.i # 0
    [] v.t = "float" -> v.w # 0 \/ v.f # <<>>
    [] v.t = "bool" -> v.b
    [] v.t = "list" -> v.l # <<>>
    [] v.t = "bytes" -> v.len # 0
    [] OTHER -> FALSE

\* a or b
PyOr(a, b) == IF IsRaise(a) THEN a ELSE IF Truthy(a) THEN a ELSE b

(* ------------------------------ strings ------------------------------- *)

Digits == <<"0", "1", "2", "3", "4", "5", "6", "7", "8", "9">>
Upper == <<"A", "B", "C", "D", "E", "F", "G", "H", "I", "J", "K", "L", "M",
           "N", "O", "P", "Q", "R", "S", "T", "U", "V", "W", "X", "Y", "Z">>
Lower == <<"a", "b", "c", "d", "e", "f", "g", "h", "i", "j", "k", "l", "m",
           "n", "o", "p", "q", "r", "s", "t", "u", "v", "w", "x", "y", "z">>

IsDigitChar(c) == \E i \in DOMAIN Digits : Digits[i] = c
DigitVal(c) == (CHOOSE i \in DOMAIN Digits : Digits[i] = c) - 1

LowerChar(c) ==
  IF \E i \in DOMAIN Upper : Upper[i] = c
  THEN Lower[CHOOSE i \in DOMAIN Upper : Upper[i] = c]
  ELSE c

\* str.lower()
lower(s) == [i \in DOMAIN s |-> LowerChar(s[i])]

\* str.isdigit() on ASCII text: at least one character, all of them digits
isdigit(s) == s # <<>> /\ \A i \in DOMAIN s : IsDigitChar(s[i])

\* str.replace(c, "", 1): the first occurrence of c removed
RemoveFirst(s, c) ==
  IF \E i \in DOMAIN s : s[i] = c
  THEN LET p == CHOOSE i \in DOMAIN s : s[i] = c /\ \A j \in 1..(i - 1) : s[j] # c
       IN SubSeq(s, 1, p - 1) \o SubSeq(s, p + 1, Len(s))
  ELSE s

RECURSIVE DigitsToNat(_)
DigitsToNat(s) ==
  IF s = <<>> THEN 0
  ELSE DigitsToNat(SubSeq(s, 1, Len(s) - 1)) * 10 + DigitVal(s[Len(s)])

RECURSIVE NatToDigits(_)
NatToDigits(n) ==
  IF n < 10 THEN <<Digits[n + 1]>>
  ELSE NatToDigits(n \div 10) \o <<Digits[(n % 10) + 1]>>

RECURSIVE StripTrailingZeros(_)
StripTrailingZeros(s) ==
  IF s # <<>> /\ s[Len(s)] = "0" THEN StripTrailingZeros(SubSeq(s, 1, Len(s) - 1))
  ELSE s

RECURSIVE strip(_)
\* str.strip(): blanks removed at both ends
strip(s) ==
  IF s # <<>> /\ s[1] = " " THEN strip(Tail(s))
  ELSE IF s # <<>> /\ s[Len(s)] = " " THEN strip(SubSeq(s, 1, Len(s) - 1))
  ELSE s

RECURSIVE split(_, _)
\* str.split(c): the pieces between the occurrences of c
split(s, c) ==
  IF \E i \in DOMAIN s : s[i] = c
  THEN LET p == CHOOSE i \in DOMAIN s : s[i] = c /\ \A j \in 1..(i - 1) : s[j] # c
       IN <<SubSeq(s, 1, p - 1)>> \o split(SubSeq(s, p + 1, Len(s)), c)
  ELSE <<s>>

\* str(int)
IntToStr(n) == IF n < 0 THEN <<"-">> \o NatToDigits(0 - n) ELSE NatToDigits(n)

\* int(value)
int(v) ==
  CASE IsRaise(v) -> v
    [] v.t = "int" -> v
    [] v.t = "bool" -> PyInt(IF v.b THEN 1 ELSE 0)
    [] v.t = "float" -> PyInt(v.w)
    [] v.t = "str" ->
         LET s == strip(v.s)
             body == IF s # <<>> /\ s[1] \in {"+", "-"} THEN Tail(s) ELSE s
         IN IF isdigit(body)
            THEN PyInt(IF s[1] = "-" THEN 0 - DigitsToNat(body) ELSE DigitsToNat(body))
            ELSE Raise("ValueError")
    [] OTHER -> Raise("TypeError")

\* float(value) of a string holding digits and at most one "."
float(v) ==
  CASE IsRaise(v) -> v
    [] v.t = "float" -> v
    [] v.t = "int" -> PyFloat(v.i, <<>>)
    [] v.t = "str" ->
         LET s == strip(v.s)
             parts == split(s, ".")
         IN IF isdigit(RemoveFirst(s, ".")) /\ Len(parts) <= 2
            THEN PyFloat(DigitsToNat(parts[1]),
                         IF Len(parts) = 2 THEN StripTrailingZeros(parts[2]) ELSE <<>>)
            ELSE Raise("ValueError")
    [] OTHER -> Raise("TypeError")

\* str(value) and the f-string rendering of a value
str(v) ==
  CASE IsRaise(v) -> v
    [] v.t = "str" -> v
    [] v.t = "int" -> PyStr(IntToStr(v.i))
    [] v.t = "float" -> PyStr(IntToStr(v.w) \o <<".">> \o (IF v.f = <<>> THEN <<"0">> ELSE v.f))
    [] v.t = "bool" -> PyStr(IF v.b THEN <<"T", "r", "u", "e">> ELSE <<"F", "a", "l", "s", "e">>)
    [] OTHER -> PyStr(<<"N", "o", "n", "e">>)

(* ------------------------ distutils.util.strtobool -------------------- *)

TruthyTokens == { <<"y">>, <<"y", "e", "s">>, <<"t">>, <<"t", "r", "u", "e">>,
                  <<"o", "n">>, <<"1">> }
FalsyTokens == { <<"n">>, <<"n", "o">>, <<"f">>, <<"f", "a", "l", "s", "e">>,
                 <<"o", "f", "f">>, <<"0">> }

\* bool(strtobool(value)): value.lower() needs a string
strtobool(v) ==
  CASE IsRaise(v) -> v
    [] v.t # "str" -> Raise("AttributeError")
    [] lower(v.s) \in TruthyTokens -> PyBool(TRUE)
    [] lower(v.s) \in FalsyTokens -> PyBool(FALSE)
    [] OTHER -> Raise("ValueError")

(* --------------------------- the value coercers ------------------------ *)

\* _FORCED_EXTRA_CONFIG_TYPES = {}
FORCED_EXTRA_CONFIG_TYPES == [k \in {} |-> "str"]

\* a faulty variant: the boolean vocabulary is tried before the numbers
process_string_var_BoolFirst(value, key) ==
  IF IsRaise(value) THEN value
  ELSE IF value = EmptyStr THEN None
  ELSE IF strtobool(value) # Raise("ValueError") THEN strtobool(value)
  ELSE IF isdigit(value.s) THEN int(value)
  ELSE IF isdigit(RemoveFirst(value.s, ".")) THEN float(value)
  ELSE value

process_string_var(value, key) ==
  IF IsRaise(value) THEN value
  ELSE IF key \in DOMAIN FORCED_EXTRA_CONFIG_TYPES
          /\ FORCED_EXTRA_CONFIG_TYPES[key] \in {"str", "int", "float", "bool"}
  THEN LET t == FORCED_EXTRA_CONFIG_TYPES[key]
       IN CASE t = "str" -> str(value)
            [] t = "int" -> int(value)
            [] t = "float" -> float(value)
            [] OTHER -> strtobool(value)
  ELSE IF value = EmptyStr THEN None
  ELSE IF isdigit(value.s) THEN int(value)
  ELSE IF isdigit(RemoveFirst(value.s, ".")) THEN float(value)
  ELSE IF strtobool(value) = Raise("ValueError") THEN value
  ELSE strtobool(value)

process_boolean_str(value) ==
  IF IsRaise(value) THEN value
  ELSE IF value.t = "bool" THEN value
  ELSE IF value = None THEN PyBool(FALSE)
  ELSE IF value = EmptyStr THEN None
  ELSE strtobool(value)

empty_str_cast(value, default) ==
  IF IsRaise(value) THEN value
  ELSE IF value = EmptyStr THEN default
  ELSE value

(* ----------------------- the Interpolating Reader ---------------------- *)

RECURSIVE interpolate_some(_)
\* configparser.BasicInterpolation.before_get on a value holding no "%(name)s"
\* reference: text up to a "%" is copied, "%%" gives "%", and a "%" followed by
\* anything else is an InterpolationSyntaxError
interpolate_some(rest) ==
  IF rest = <<>> THEN PyStr(<<>>)
  ELSE IF rest[1] # "%"
  THEN LET tail == interpolate_some(Tail(rest))
       IN IF IsRaise(tail) THEN tail ELSE PyStr(<<rest[1]>> \o tail.s)
  ELSE IF Len(rest) >= 2 /\ rest[2] = "%"
  THEN LET tail == interpolate_some(SubSeq(rest, 3, Len(rest)))
       IN IF IsRaise(tail) THEN tail ELSE PyStr(<<"%">> \o tail.s)
  ELSE Raise("InterpolationSyntaxError")

\* os.getenv(option)
getenv(option) == IF option \in DOMAIN env THEN PyStr(env[option]) ELSE None

\* a faulty variant: the environment variable wins over a stored value
before_get_EnvWins(option, raw) ==
  LET value == interpolate_some(raw)
      envvar == getenv(option)
  IN IF IsRaise(value) THEN value
     ELSE IF Truthy(envvar) THEN process_string_var(envvar, option)
     ELSE value

\* EnvInterpolation.before_get
before_get(option, raw) ==
  LET value == interpolate_some(raw)
      envvar == getenv(option)
  IN IF IsRaise(value) THEN value
     ELSE IF value = EmptyStr /\ Truthy(envvar) THEN process_string_var(envvar, option)
     ELSE value

\* config_ini[section][option]
SectionItem(section, option) ==
  IF option \in DOMAIN ini[section] THEN before_get(option, ini[section][option])
  ELSE Raise("KeyError")

\* config_ini[section].get(option): the fallback of a missing option is None
SectionGet(section, option) ==
  IF option \in DOMAIN ini[section] THEN before_get(option, ini[section][option])
  ELSE None

BOOLEAN_STATES_TRUE == { <<"1">>, <<"y", "e", "s">>, <<"t", "r", "u", "e">>, <<"o", "n">> }
BOOLEAN_STATES_FALSE == { <<"0">>, <<"n", "o">>, <<"f", "a", "l", "s", "e">>, <<"o", "f", "f">> }

\* config_ini[section].getboolean(option, fallback=fallback)
SectionGetBoolean(section, option, fallback) ==
  IF option \notin DOMAIN ini[section] THEN fallback
  ELSE LET value == before_get(option, ini[section][option])
       IN CASE IsRaise(value) -> value
            [] value.t # "str" -> Raise("AttributeError")
            [] lower(value.s) \in BOOLEAN_STATES_TRUE -> PyBool(TRUE)
            [] lower(value.s) \in BOOLEAN_STATES_FALSE -> PyBool(FALSE)
            [] OTHER -> Raise("ValueError")

\* config_ini[section].getint(option): the fallback of a missing option is None
SectionGetInt(section, option) ==
  IF option \in DOMAIN ini[section] THEN int(before_get(option, ini[section][option]))
  ELSE None

RECURSIVE SectionItems_Raw(_)
\* a faulty variant: the pairs as stored, not read through before_get
SectionItems_Raw(pairs) ==
  IF pairs = <<>> THEN PyList(<<>>)
  ELSE PyList(<<[k |-> pairs[1].k, v |-> PyStr(pairs[1].v)]>> \o SectionItems_Raw(Tail(pairs)).l)

RECURSIVE SectionItems(_)
\* config_ini.items("extra"): every pair read through before_get, or the first
\* error of a read
SectionItems(pairs) ==
  IF pairs = <<>> THEN PyList(<<>>)
  ELSE LET v == before_get(pairs[1].k, pairs[1].v)
           tail == SectionItems(Tail(pairs))
       IN IF IsRaise(v) THEN v
          ELSE IF IsRaise(tail) THEN tail
          ELSE PyList(<<[k |-> pairs[1].k, v |-> v]>> \o tail.l)

\* the first exception of a sequence of evaluated expressions, None without one
FirstRaise(vals) ==
  IF \E i \in DOMAIN vals : IsRaise(vals[i])
  THEN vals[CHOOSE i \in DOMAIN vals : IsRaise(vals[i]) /\ \A j \in 1..(i - 1) : ~IsRaise(vals[j])]
  ELSE None

(* ------------------------- the Secret Provisioner ---------------------- *)

\* a faulty variant: the generated key is never written
gen_secret_key_NoPersist(f, rnd) ==
  LET key == IF f.readable /\ f.content # None THEN f.content ELSE None
  IN IF Truthy(key) THEN [ret |-> key, fs |-> f] ELSE [ret |-> rnd, fs |-> f]

\* gen_secret_key with os.urandom(64) returning rnd: the key returned and the
\* file it leaves.  An open that fails is an OSError, which both try blocks catch.
gen_secret_key(f, rnd) ==
  LET key == IF f.readable /\ f.content # None THEN f.content ELSE None
  IN IF Truthy(key) THEN [ret |-> key, fs |-> f]
     ELSE [ret |-> rnd,
           fs |-> IF f.writable THEN [f EXCEPT !.content = rnd] ELSE f]

(* --------------------------- program constants ------------------------- *)

\* os.urandom(64)
SecretLen == 64
\* REDIS_PORT ... or 6379
DefaultRedisPort == 6379
\* PERMANENT_SESSION_LIFETIME ... or 604800
DefaultSessionLifetime == 604800

\* os.path.dirname(os.path.abspath(__file__)) of one installation
ModuleDir == <<"/", "o", "p", "t", "/", "C", "T", "F", "d">>

TRUSTED_PROXIES ==
  PyList(<< "^127\\.0\\.0\\.1$", "^::1$", "^fc00:", "^10\\.",
            "^172\\.(1[6-9]|2[0-9]|3[0-1])\\.", "^192\\.168\\." >>)

(* ----------------------- sqlalchemy.engine.url.URL --------------------- *)

QuoteChar(c) ==
  CASE c = ":" -> <<"%", "3", "A">>
    [] c = "@" -> <<"%", "4", "0">>
    [] c = "/" -> <<"%", "2", "F">>
    [] OTHER -> <<c>>

RECURSIVE Quote(_)
\* the escaping of ":", "@" and "/" in a user name or password
Quote(s) == IF s = <<>> THEN <<>> ELSE QuoteChar(s[1]) \o Quote(Tail(s))

\* str(URL(drivername, username, password, host, port, database))
UrlToString(drivername, username, password, host, port, database) ==
  LET args == <<drivername, username, password, host, port, database>>
      portnum == IF port = None THEN None ELSE int(port)
      strs == <<drivername, username, password, host, database>>
  IN IF FirstRaise(args) # None THEN FirstRaise(args)
     ELSE IF IsRaise(portnum) THEN portnum
     ELSE IF \E i \in DOMAIN strs : strs[i] # None /\ ~IsStr(strs[i]) THEN Raise("TypeError")
     ELSE PyStr(
       drivername.s \o <<":", "/", "/">>
       \o (IF username # None
           THEN Quote(username.s)
                \o (IF password # None THEN <<":">> \o Quote(password.s) ELSE <<>>)
                \o <<"@">>
           ELSE <<>>)
       \o (IF host # None
           THEN (IF \E i \in DOMAIN host.s : host.s[i] = ":"
                 THEN <<"[">> \o host.s \o <<"]">> ELSE host.s)
           ELSE <<>>)
       \o (IF portnum # None THEN <<":">> \o IntToStr(portnum.i) ELSE <<>>)
       \o (IF database # None THEN <<"/">> \o database.s ELSE <<>>))

(* ------------------------ ServerConfig, field by field ----------------- *)

\* the class body stops at the first exception: nothing is assigned
Abort(e) ==
  /\ pc' = "failed"
  /\ exc' = e
  /\ UNCHANGED <<cfg, items>>

\* a faulty variant: a host that is set wins over DATABASE_URL
DATABASE_URL_HostFirst ==
  LET url == empty_str_cast(SectionItem("server", "DATABASE_URL"), None)
      host == empty_str_cast(SectionItem("server", "DATABASE_HOST"), None)
  IN IF host # None THEN PyStr(<<"m", "y", "s", "q", "l", "+", "p", "y", "m", "y", "s", "q", "l", ":", "/", "/", "c", "t", "f", "d", "@">> \o str(host).s \o <<"/", "c", "t", "f", "d">>)
     ELSE IF Truthy(url) THEN url
     ELSE PyStr(<<"s", "q", "l", "i", "t", "e", ":", "/", "/", "/">> \o ModuleDir \o <<"/", "c", "t", "f", "d", ".", "d", "b">>)

\* DATABASE_URL, lines 85-97
DATABASE_URL ==
  LET url == empty_str_cast(SectionItem("server", "DATABASE_URL"), None)
      host == empty_str_cast(SectionItem("server", "DATABASE_HOST"), None)
  IN IF IsRaise(url) THEN url
     ELSE IF Truthy(url) THEN url
     ELSE IF IsRaise(host) THEN host
     ELSE IF host # None
     THEN UrlToString(
            PyOr(empty_str_cast(SectionItem("server", "DATABASE_PROTOCOL"), None),
                 PyStr(<<"m", "y", "s", "q", "l", "+", "p", "y", "m", "y", "s", "q", "l">>)),
            PyOr(empty_str_cast(SectionItem("server", "DATABASE_USER"), None), PyStr(<<"c", "t", "f", "d">>)),
            empty_str_cast(SectionItem("server", "DATABASE_PASSWORD"), None),
            empty_str_cast(SectionItem("server", "DATABASE_HOST"), None),
            empty_str_cast(SectionItem("server", "DATABASE_PORT"), None),
            PyOr(empty_str_cast(SectionItem("server", "DATABASE_NAME"), None), PyStr(<<"c", "t", "f", "d">>)))
     ELSE PyStr(<<"s", "q", "l", "i", "t", "e", ":", "/", "/", "/">> \o ModuleDir \o <<"/", "c", "t", "f", "d", ".", "d", "b">>)

\* the REDIS_* fields, lines 99-105
REDIS_URL == empty_str_cast(SectionItem("server", "REDIS_URL"), None)
REDIS_HOST == empty_str_cast(SectionItem("server", "REDIS_HOST"), None)
REDIS_PROTOCOL ==
  PyOr(empty_str_cast(SectionItem("server", "REDIS_PROTOCOL"), None), PyStr(<<"r", "e", "d", "i", "s">>))
REDIS_USER == empty_str_cast(SectionItem("server", "REDIS_USER"), None)
REDIS_PASSWORD == empty_str_cast(SectionItem("server", "REDIS_PASSWORD"), None)
REDIS_PORT ==
  PyOr(empty_str_cast(SectionItem("server", "REDIS_PORT"), None), PyInt(DefaultRedisPort))
REDIS_DB == PyOr(empty_str_cast(SectionItem("server", "REDIS_DB"), None), PyInt(0))

\* a faulty variant: REDIS_HOST is not looked at
CACHE_REDIS_URL_IgnoreHost == REDIS_URL

\* CACHE_REDIS_URL, lines 107-115, once the REDIS_* fields are read
CACHE_REDIS_URL ==
  IF Truthy(REDIS_URL) \/ REDIS_HOST = None THEN REDIS_URL
  ELSE IF Truthy(REDIS_USER) /\ ~IsStr(REDIS_USER) THEN Raise("TypeError")
  ELSE PyStr(
    str(REDIS_PROTOCOL).s \o <<":", "/", "/">>
    \o (IF Truthy(REDIS_USER) THEN REDIS_USER.s ELSE <<>>)
    \o (IF Truthy(REDIS_PASSWORD) THEN <<":">> \o str(REDIS_PASSWORD).s ELSE <<>>)
    \o <<"@">> \o str(REDIS_HOST).s \o <<":">> \o str(REDIS_PORT).s
    \o <<"/">> \o str(REDIS_DB).s)

\* the fixed cache directory, line 122
CACHE_DIR == PyStr(ModuleDir \o <<"/", ".", ".", "/", ".", "d", "a", "t", "a", "/", "f", "i", "l", "e", "s", "y", "s", "t", "e", "m", "_", "c", "a", "c", "h", "e">>)

\* the security fields, lines 126-133
SESSION_COOKIE_HTTPONLY ==
  SectionGetBoolean("security", "SESSION_COOKIE_HTTPONLY", PyBool(TRUE))
SESSION_COOKIE_SAMESITE ==
  PyOr(empty_str_cast(SectionItem("security", "SESSION_COOKIE_SAMESITE"), None), PyStr(<<"L", "a", "x">>))
PERMANENT_SESSION_LIFETIME ==
  PyOr(SectionGetInt("security", "PERMANENT_SESSION_LIFETIME"), PyInt(DefaultSessionLifetime))
CROSS_ORIGIN_OPENER_POLICY ==
  PyOr(empty_str_cast(SectionGet("security", "CROSS_ORIGIN_OPENER_POLICY"), None),
       PyStr(<<"s", "a", "m", "e", "-", "o", "r", "i", "g", "i", "n", "-", "a", "l", "l", "o", "w", "-", "p", "o", "p", "u", "p", "s">>))
TRUSTED_HOSTS ==
  LET v == SectionGet("security", "TRUSTED_HOSTS")
  IN IF IsRaise(v) THEN v
     ELSE IF ~Truthy(v) THEN PyList(<<>>)
     ELSE IF ~IsStr(v) THEN Raise("AttributeError")
     ELSE PyList([i \in DOMAIN split(v.s, ",") |-> strip(split(v.s, ",")[i])])

\* the optional fields, lines 140-147
REVERSE_PROXY == empty_str_cast(SectionGet("optional", "REVERSE_PROXY"), PyBool(TRUE))
FORCE_HTTPS ==
  process_boolean_str(empty_str_cast(SectionGet("optional", "FORCE_HTTPS"), PyBool(TRUE)))
APPLICATION_ROOT == empty_str_cast(SectionGet("optional", "APPLICATION_ROOT"), PyStr(<<"/">>))
TEMPLATES_AUTO_RELOAD ==
  process_boolean_str(
    empty_str_cast(SectionGet("optional", "TEMPLATES_AUTO_RELOAD"), PyBool(TRUE)))
THEME_FALLBACK ==
  process_boolean_str(empty_str_cast(SectionGet("optional", "THEME_FALLBACK"), PyBool(TRUE)))
SQLALCHEMY_TRACK_MODIFICATIONS ==
  process_boolean_str(
    empty_str_cast(SectionGet("optional", "SQLALCHEMY_TRACK_MODIFICATIONS"), PyBool(FALSE)))
UPDATE_CHECK ==
  process_boolean_str(empty_str_cast(SectionGet("optional", "UPDATE_CHECK"), PyBool(TRUE)))

\* attributes every Python object has, whatever the class body assigned
ObjectAttributes == {"__class__", "__dict__", "__doc__", "__init__", "__module__"}

\* a faulty variant: no attribute is ever found
hasattr_Never(k) == FALSE

\* hasattr(Config, k)
hasattr(k) == k \in DOMAIN cfg \/ k \in ObjectAttributes

(* ------------------------------- actions ------------------------------- *)

\* line 83: SECRET_KEY = empty_str_cast(...) or gen_secret_key()
ResolveSecretKey ==
  /\ pc = "SECRET_KEY"
  /\ \E id \in 1..NumSecrets :
       LET stored == empty_str_cast(SectionItem("server", "SECRET_KEY"), None)
           gen == gen_secret_key(fs, PyBytes(id, SecretLen))
       IN IF IsRaise(stored)
          THEN Abort(stored) /\ UNCHANGED <<fs, keys, rewrote>>
          ELSE IF Truthy(stored)
          THEN /\ cfg' = ("SECRET_KEY" :> stored) @@ cfg
               /\ pc' = "DATABASE_URL"
               /\ UNCHANGED <<fs, keys, rewrote, items, exc>>
          ELSE /\ cfg' = ("SECRET_KEY" :> gen.ret) @@ cfg
               /\ fs' = gen.fs
               /\ keys' = Append(keys, gen.ret)
               /\ rewrote' = (rewrote \/ (Truthy(fs.content) /\ gen.fs.content # fs.content))
               /\ pc' = "DATABASE_URL"
               /\ UNCHANGED <<items, exc>>
  /\ UNCHANGED <<ini, env, run, arg, res>>

\* lines 85-97
ResolveDatabaseUrl ==
  /\ pc = "DATABASE_URL"
  /\ IF IsRaise(DATABASE_URL) THEN Abort(DATABASE_URL)
     ELSE /\ cfg' = ("DATABASE_URL" :> DATABASE_URL) @@ cfg
          /\ pc' = "REDIS"
          /\ UNCHANGED <<items, exc>>
  /\ UNCHANGED <<ini, env, fs, keys, rewrote, run, arg, res>>

\* lines 99-115
ResolveRedis ==
  /\ pc = "REDIS"
  /\ LET reads == <<REDIS_URL, REDIS_HOST, REDIS_PROTOCOL, REDIS_USER, REDIS_PASSWORD,
                    REDIS_PORT, REDIS_DB>>
     IN IF FirstRaise(reads) # None THEN Abort(FirstRaise(reads))
        ELSE IF IsRaise(CACHE_REDIS_URL) THEN Abort(CACHE_REDIS_URL)
        ELSE /\ cfg' = [REDIS_URL |-> REDIS_URL, REDIS_HOST |-> REDIS_HOST,
                        REDIS_PROTOCOL |-> REDIS_PROTOCOL, REDIS_USER |-> REDIS_USER,
                        REDIS_PASSWORD |-> REDIS_PASSWORD, REDIS_PORT |-> REDIS_PORT,
                        REDIS_DB |-> REDIS_DB, CACHE_REDIS_URL |-> CACHE_REDIS_URL] @@ cfg
             /\ pc' = "CACHE"
             /\ UNCHANGED <<items, exc>>
  /\ UNCHANGED <<ini, env, fs, keys, rewrote, run, arg, res>>

\* lines 117-123
ResolveCache ==
  /\ pc = "CACHE"
  /\ cfg' = (IF Truthy(cfg["CACHE_REDIS_URL"])
             THEN [SQLALCHEMY_DATABASE_URI |-> cfg["DATABASE_URL"],
                   CACHE_TYPE |-> PyStr(<<"r", "e", "d", "i", "s">>)]
             ELSE [SQLALCHEMY_DATABASE_URI |-> cfg["DATABASE_URL"],
                   CACHE_TYPE |-> PyStr(<<"f", "i", "l", "e", "s", "y", "s", "t", "e", "m">>),
                   CACHE_DIR |-> CACHE_DIR,
                   CACHE_THRESHOLD |-> PyInt(0)]) @@ cfg
  /\ pc' = "SECURITY"
  /\ UNCHANGED <<ini, env, fs, items, exc, keys, rewrote, run, arg, res>>

\* lines 126-137
ResolveSecurity ==
  /\ pc = "SECURITY"
  /\ LET reads == <<SESSION_COOKIE_HTTPONLY, SESSION_COOKIE_SAMESITE,
                    PERMANENT_SESSION_LIFETIME, CROSS_ORIGIN_OPENER_POLICY, TRUSTED_HOSTS>>
     IN IF FirstRaise(reads) # None THEN Abort(FirstRaise(reads))
        ELSE /\ cfg' = [SESSION_COOKIE_HTTPONLY |-> SESSION_COOKIE_HTTPONLY,
                        SESSION_COOKIE_SAMESITE |-> SESSION_COOKIE_SAMESITE,
                        PERMANENT_SESSION_LIFETIME |-> PERMANENT_SESSION_LIFETIME,
                        CROSS_ORIGIN_OPENER_POLICY |-> CROSS_ORIGIN_OPENER_POLICY,
                        TRUSTED_HOSTS |-> TRUSTED_HOSTS,
                        TRUSTED_PROXIES |-> TRUSTED_PROXIES] @@ cfg
             /\ pc' = "OPTIONAL"
             /\ UNCHANGED <<items, exc>>
  /\ UNCHANGED <<ini, env, fs, keys, rewrote, run, arg, res>>

\* lines 140-147
ResolveOptional ==
  /\ pc = "OPTIONAL"
  /\ LET reads == <<REVERSE_PROXY, FORCE_HTTPS, APPLICATION_ROOT, TEMPLATES_AUTO_RELOAD,
                    THEME_FALLBACK, SQLALCHEMY_TRACK_MODIFICATIONS, UPDATE_CHECK>>
     IN IF FirstRaise(reads) # None THEN Abort(FirstRaise(reads))
        ELSE /\ cfg' = [REVERSE_PROXY |-> REVERSE_PROXY, FORCE_HTTPS |-> FORCE_HTTPS,
                        APPLICATION_ROOT |-> APPLICATION_ROOT,
                        TEMPLATES_AUTO_RELOAD |-> TEMPLATES_AUTO_RELOAD,
                        THEME_FALLBACK |-> THEME_FALLBACK,
                        SQLALCHEMY_TRACK_MODIFICATIONS |-> SQLALCHEMY_TRACK_MODIFICATIONS,
                        UPDATE_CHECK |-> UPDATE_CHECK] @@ cfg
             /\ pc' = "Config"
             /\ UNCHANGED <<items, exc>>
  /\ UNCHANGED <<ini, env, fs, keys, rewrote, run, arg, res>>

\* lines 150-151: Config = ServerConfig(), then config_ini.items("extra") is read
Instantiate ==
  /\ pc = "Config"
  /\ IF IsRaise(SectionItems(ini.extra)) THEN Abort(SectionItems(ini.extra))
     ELSE /\ items' = SectionItems(ini.extra).l
          /\ pc' = "extra"
          /\ UNCHANGED <<cfg, exc>>
  /\ UNCHANGED <<ini, env, fs, keys, rewrote, run, arg, res>>

\* lines 151-154: one turn of the loop over the extra section
MergeExtra ==
  /\ pc = "extra"
  /\ IF items = <<>>
     THEN pc' = "done" /\ UNCHANGED <<cfg, items, exc>>
     ELSE IF hasattr(Head(items).k)
     THEN Abort(Raise("ValueError"))
     ELSE /\ cfg' = (Head(items).k :> Head(items).v) @@ cfg
          /\ items' = Tail(items)
          /\ UNCHANGED <<pc, exc>>
  /\ UNCHANGED <<ini, env, fs, keys, rewrote, run, arg, res>>

\* the process is started again: config.ini, the environment and the secret
\* file are as the last run left them
Restart ==
  /\ pc \in {"done", "failed"}
  /\ run < MaxRuns
  /\ run' = run + 1
  /\ pc' = "SECRET_KEY"
  /\ cfg' = <<>>
  /\ items' = <<>>
  /\ exc' = None
  /\ UNCHANGED <<ini, env, fs, keys, rewrote, arg, res>>

\* a direct call of EnvInterpolation.before_get(parser, section, option, value, defaults)
CallBeforeGet ==
  /\ pc = "call"
  /\ arg.fn = "before_get"
  /\ res' = before_get(arg.option, arg.value)
  /\ pc' = "returned"
  /\ UNCHANGED <<ini, env, fs, cfg, items, exc, keys, rewrote, run, arg>>

\* a direct call of process_string_var(value, key=None)
CallProcessStringVar ==
  /\ pc = "call"
  /\ arg.fn = "process_string_var"
  /\ res' = process_string_var(PyStr(arg.value), arg.option)
  /\ pc' = "returned"
  /\ UNCHANGED <<ini, env, fs, cfg, items, exc, keys, rewrote, run, arg>>

Next ==
  \/ ResolveSecretKey
  \/ ResolveDatabaseUrl
  \/ ResolveRedis
  \/ ResolveCache
  \/ ResolveSecurity
  \/ ResolveOptional
  \/ Instantiate
  \/ MergeExtra
  \/ Restart
  \/ CallBeforeGet
  \/ CallProcessStringVar

(* ------------------- config.ini, environment and files ------------------ *)

\* number of options of the extra section
MaxExtra == 2

RECURSIVE StringsUpTo(_, _)
\* every string of at most n characters of alphabet
StringsUpTo(alphabet, n) ==
  IF n = 0 THEN {<<>>}
  ELSE LET shorter == StringsUpTo(alphabet, n - 1)
       IN shorter \cup {Append(s, c) : s \in shorter, c \in alphabet}

\* a section or an environment from a choice of values, None leaving the name out
Present(choice) == [n \in {m \in DOMAIN choice : choice[m] # None} |-> choice[n].s]

\* a config.ini that sets SECRET_KEY and the two security options a shipped
\* config.ini sets, and leaves every other option empty
BaseServer ==
  [SECRET_KEY |-> PyStr(<<"k", "e", "y">>), DATABASE_URL |-> EmptyStr, DATABASE_HOST |-> EmptyStr,
   DATABASE_PROTOCOL |-> EmptyStr, DATABASE_USER |-> EmptyStr,
   DATABASE_PASSWORD |-> EmptyStr, DATABASE_PORT |-> EmptyStr, DATABASE_NAME |-> EmptyStr,
   REDIS_URL |-> EmptyStr, REDIS_HOST |-> EmptyStr, REDIS_PROTOCOL |-> EmptyStr,
   REDIS_USER |-> EmptyStr, REDIS_PASSWORD |-> EmptyStr, REDIS_PORT |-> EmptyStr,
   REDIS_DB |-> EmptyStr]
BaseSecurity ==
  [SESSION_COOKIE_HTTPONLY |-> PyStr(<<"t", "r", "u", "e">>), SESSION_COOKIE_SAMESITE |-> EmptyStr,
   PERMANENT_SESSION_LIFETIME |-> PyStr(<<"6", "0", "4", "8", "0", "0">>), CROSS_ORIGIN_OPENER_POLICY |-> EmptyStr,
   TRUSTED_HOSTS |-> EmptyStr]
BaseOptional ==
  [REVERSE_PROXY |-> EmptyStr, FORCE_HTTPS |-> EmptyStr, APPLICATION_ROOT |-> EmptyStr,
   TEMPLATES_AUTO_RELOAD |-> EmptyStr, THEME_FALLBACK |-> EmptyStr,
   SQLALCHEMY_TRACK_MODIFICATIONS |-> EmptyStr, UPDATE_CHECK |-> EmptyStr]

ConfigIni(server, security, optional, extra) ==
  [server |-> Present(server @@ BaseServer), security |-> Present(security @@ BaseSecurity),
   optional |-> Present(optional @@ BaseOptional), extra |-> extra]

NoChoice == [n \in {} |-> None]
NoFile == [content |-> None, readable |-> TRUE, writable |-> TRUE]

BooleanOptions ==
  {"FORCE_HTTPS", "TEMPLATES_AUTO_RELOAD", "THEME_FALLBACK",
   "SQLALCHEMY_TRACK_MODIFICATIONS", "UPDATE_CHECK"}

\* the vocabulary of strtobool in lower case, some of it in other cases, and
\* strings outside it
BooleanTexts ==
  TruthyTokens \cup FalsyTokens
  \cup {<<"Y", "E", "S">>, <<"T", "r", "u", "e">>, <<"O", "F", "F">>, <<"N", "o">>, <<"a", "b", "c">>, <<"2", ".", "5">>, <<"4", "2">>}

ExtraKeys == {"SECRET_KEY", "MY_CUSTOM_OPTION", "CACHE_DIR", "__doc__"}

\* the extra sections of at most MaxExtra options, no option named twice
ExtraSections ==
  {s \in UNION {[1..n -> [k : ExtraKeys, v : {<<>>, <<"v">>}]] : n \in 0..MaxExtra} :
     \A i, j \in DOMAIN s : i # j => s[i].k # s[j].k}

GetAlphabet == {"%", "4", "y"}
GetTexts == StringsUpTo(GetAlphabet, MaxLen) \cup {<<"4", "2">>, <<"7">>}

CoerceAlphabet == {"0", "7", ".", "n", "O", "x"}
CoerceTexts ==
  StringsUpTo(CoerceAlphabet, MaxLen) \cup BooleanTexts
  \cup {<<"T", "R", "U", "E">>, <<"f", "A", "l", "S", "e">>, <<"0", "0", "7">>, <<"1", ".", "5", ".", "0">>, <<"t", "r", "u", "t", "h">>}

\* the program starts with config.ini written, the environment set and the
\* secret file as an earlier process left it
InitProgram ==
  /\ pc = "SECRET_KEY"
  /\ arg = None
  /\ \/ \* SECRET_KEY and the secret file
        /\ \E s \in {<<>>, <<"k">>}, e \in {None, PyStr(<<"0">>), PyStr(<<"e">>)} :
             /\ ini = ConfigIni([SECRET_KEY |-> PyStr(s)], NoChoice, NoChoice, <<>>)
             /\ env = Present([SECRET_KEY |-> e])
        /\ fs \in [content : {None, PyBytes(0, 0), PyBytes(7, 10), PyBytes(1, SecretLen)},
                   readable : BOOLEAN, writable : BOOLEAN]
     \/ \* the DATABASE_* options
        /\ \E s \in [DATABASE_URL : {EmptyStr, PyStr(<<"p", "g", ":", "/", "/", "x">>)},
                     DATABASE_HOST : {EmptyStr, PyStr(<<"d", "b">>)},
                     DATABASE_PROTOCOL : {EmptyStr, PyStr(<<"p", "g">>)},
                     DATABASE_USER : {EmptyStr, PyStr(<<"u">>)},
                     DATABASE_PASSWORD : {EmptyStr, PyStr(<<"p", "@">>)},
                     DATABASE_PORT : {EmptyStr, PyStr(<<"3", "3">>)},
                     DATABASE_NAME : {EmptyStr, PyStr(<<"n">>)}],
              e \in [DATABASE_URL : {None, PyStr(<<"0">>), PyStr(<<"o", "f", "f">>), PyStr(<<"4", "2">>),
                                     PyStr(<<"m", "y", ":", "/", "/", "e">>)},
                     DATABASE_HOST : {None, PyStr(<<"h">>)}] :
             /\ ini = ConfigIni(s, NoChoice, NoChoice, <<>>)
             /\ env = Present(e)
        /\ fs = NoFile
     \/ \* the REDIS_* options
        /\ \E s \in [REDIS_URL : {EmptyStr, PyStr(<<"r", "s", ":", "/", "/", "x">>)},
                     REDIS_HOST : {EmptyStr, PyStr(<<"c", "a", "c", "h", "e">>)},
                     REDIS_PROTOCOL : {EmptyStr, PyStr(<<"r", "s">>)},
                     REDIS_USER : {EmptyStr, PyStr(<<"u">>)},
                     REDIS_PASSWORD : {EmptyStr, PyStr(<<"p">>)},
                     REDIS_PORT : {EmptyStr, PyStr(<<"6", "3", "8", "0">>)},
                     REDIS_DB : {EmptyStr, PyStr(<<"2">>)}],
              e \in [REDIS_URL : {None, PyStr(<<"0">>), PyStr(<<"f", "a", "l", "s", "e">>), PyStr(<<"r", ":", "/", "/", "e">>)},
                     REDIS_HOST : {None, PyStr(<<"h">>)}] :
             /\ ini = ConfigIni(s, NoChoice, NoChoice, <<>>)
             /\ env = Present(e)
        /\ fs = NoFile
     \/ \* the security options, each absent, empty or set
        /\ \E s \in [SESSION_COOKIE_HTTPONLY : {None, EmptyStr, PyStr(<<"t", "r", "u", "e">>), PyStr(<<"n", "o">>)},
                     SESSION_COOKIE_SAMESITE : {None, EmptyStr, PyStr(<<"S", "t", "r", "i", "c", "t">>)},
                     PERMANENT_SESSION_LIFETIME : {None, EmptyStr, PyStr(<<"6", "0">>)},
                     CROSS_ORIGIN_OPENER_POLICY : {None, EmptyStr, PyStr(<<"x">>)},
                     TRUSTED_HOSTS : {None, EmptyStr, PyStr(<<"a">>), PyStr(<<"a", ".", "b", " ", ",", " ", "c">>)}],
              e \in [TRUSTED_HOSTS : {None, PyStr(<<"d", ",", "e">>)}] :
             /\ ini = ConfigIni(NoChoice, s, NoChoice, <<>>)
             /\ env = Present(e)
        /\ fs = NoFile
     \/ \* one boolean option, absent, empty or set, in config.ini and the environment
        /\ \E o \in BooleanOptions,
              s \in {None, EmptyStr} \cup {PyStr(x) : x \in BooleanTexts},
              e \in {None} \cup {PyStr(x) : x \in BooleanTexts} :
             /\ s = EmptyStr \/ e \in {None, PyStr(<<"1">>)}
             /\ ini = ConfigIni(NoChoice, NoChoice, (o :> s), <<>>)
             /\ env = Present((o :> e))
        /\ fs = NoFile
     \/ \* the extra section
        /\ \E x \in ExtraSections, r \in {<<>>, <<"r", "s", ":", "/", "/", "x">>}, e \in {None, PyStr(<<"4", "2">>)} :
             /\ ini = ConfigIni([REDIS_URL |-> PyStr(r)], NoChoice, NoChoice, x)
             /\ env = Present([MY_CUSTOM_OPTION |-> e])
        /\ fs = NoFile

\* a coercer is called on its own
InitCall ==
  /\ pc = "call"
  /\ ini = ConfigIni(NoChoice, NoChoice, NoChoice, <<>>)
  /\ fs = NoFile
  /\ \/ /\ arg \in [fn : {"before_get"}, option : {"OPTION"}, value : GetTexts]
        /\ env \in {Present(NoChoice)} \cup {Present([OPTION |-> PyStr(e)]) : e \in GetTexts}
     \/ /\ arg \in [fn : {"process_string_var"}, option : {"None"}, value : CoerceTexts]
        /\ env = Present(NoChoice)

Init ==
  /\ InitProgram \/ InitCall
  /\ cfg = <<>>
  /\ items = <<>>
  /\ exc = None
  /\ keys = <<>>
  /\ rewrote = FALSE
  /\ run = 1
  /\ res = None

Spec == Init /\ [][Next]_vars

(* ------------------------------ the claims ----------------------------- *)

StartsWith(s, p) == Len(p) <= Len(s) /\ SubSeq(s, 1, Len(p)) = p
EndsWith(s, p) == Len(p) <= Len(s) /\ SubSeq(s, Len(s) - Len(p) + 1, Len(s)) = p
HasChar(s, c) == \E i \in DOMAIN s : s[i] = c

\* an environment variable that is set and not empty
EnvSet(o) == o \in DOMAIN env /\ env[o] # <<>>

\* a call of before_get has returned
GetReturned == pc = "returned" /\ arg.fn = "before_get"

\* C1, as stated: whatever the stored value and the environment hold, before_get
\* returns a non-empty stored value unchanged, the coerced environment value ("42"
\* gives 42) when the stored value is empty and the variable is set and non-empty,
\* and the empty string, not None, when both are empty or absent.
C1_StoredReturnedUnchanged ==
  GetReturned =>
    /\ arg.value # <<>> => res = PyStr(arg.value)
    /\ (arg.value = <<>> /\ EnvSet(arg.option)) =>
         /\ res = process_string_var(PyStr(env[arg.option]), arg.option)
         /\ env[arg.option] = <<"4", "2">> => res = PyInt(42)
    /\ (arg.value = <<>> /\ ~EnvSet(arg.option)) => res = EmptyStr

\* C1, amended: a non-empty stored value that holds no "%" is returned unchanged
\* whatever the environment holds; a stored value that holds "%" goes through
\* basic interpolation, which gives "%" for "%%" and rejects a "%" followed by
\* anything but "%" or "("; the two clauses about an empty stored value stand.
C1_ReaderPrecedence ==
  GetReturned =>
    /\ (arg.value # <<>> /\ ~HasChar(arg.value, "%")) => res = PyStr(arg.value)
    /\ arg.value = <<"%", "%">> => res = PyStr(<<"%">>)
    /\ HasChar(arg.value, "%") =>
         \/ res = Raise("InterpolationSyntaxError")
         \/ IsStr(res) /\ res.s # <<>> /\ Len(res.s) < Len(arg.value)
    /\ (arg.value = <<>> /\ EnvSet(arg.option)) =>
         /\ res = process_string_var(PyStr(env[arg.option]), arg.option)
         /\ env[arg.option] = <<"4", "2">> => res = PyInt(42)
    /\ (arg.value = <<>> /\ ~EnvSet(arg.option)) => res = EmptyStr

\* C1 witness: an empty stored value overridden by the variable set to "42"
C1_Witness ==
  /\ GetReturned
  /\ arg.value = <<>>
  /\ EnvSet(arg.option) /\ env[arg.option] = <<"4", "2">>
  /\ res = PyInt(42)

AsciiDigits == {"0", "1", "2", "3", "4", "5", "6", "7", "8", "9"}
OnlyDigits(s) == s # <<>> /\ \A i \in DOMAIN s : s[i] \in AsciiDigits
\* digits and exactly one "."
DecimalNumber(s) ==
  /\ Cardinality({i \in DOMAIN s : s[i] = "."}) = 1
  /\ \E i \in DOMAIN s : s[i] \in AsciiDigits
  /\ \A i \in DOMAIN s : s[i] \in AsciiDigits \cup {"."}

RECURSIVE StripLeadingZeros(_)
StripLeadingZeros(s) ==
  IF Len(s) > 1 /\ s[1] = "0" THEN StripLeadingZeros(Tail(s)) ELSE s

Reader(o) == SectionItem("server", o)
\* the reader's value of an option, or its default when that value is empty
ReaderOr(o, default) == IF Reader(o) = EmptyStr THEN PyStr(default) ELSE Reader(o)

\* the URL the DATABASE_* options compose: user, then ":password" when there is
\* a password, then "@", the host, ":port" when there is a port, and the name
C3_ComposedFrom(url) ==
  LET head == ReaderOr("DATABASE_PROTOCOL", <<"m", "y", "s", "q", "l", "+", "p", "y", "m", "y", "s", "q", "l">>).s \o <<":", "/", "/">>
              \o ReaderOr("DATABASE_USER", <<"c", "t", "f", "d">>).s
      tail == <<"@">> \o Reader("DATABASE_HOST").s
              \o (IF Reader("DATABASE_PORT") = EmptyStr THEN <<>>
                  ELSE <<":">> \o str(Reader("DATABASE_PORT")).s)
              \o <<"/">> \o ReaderOr("DATABASE_NAME", <<"c", "t", "f", "d">>).s
  IN /\ IsStr(url)
     /\ StartsWith(url.s, head)
     /\ EndsWith(url.s, tail)
     /\ IF Reader("DATABASE_PASSWORD") = EmptyStr
        THEN url.s = head \o tail
        ELSE /\ Len(url.s) > Len(head) + Len(tail) + 1
             /\ url.s[Len(head) + 1] = ":"
     /\ (/\ Reader("DATABASE_HOST") = PyStr(<<"d", "b">>)
         /\ \A o \in {"DATABASE_PROTOCOL", "DATABASE_USER", "DATABASE_PASSWORD",
                      "DATABASE_PORT", "DATABASE_NAME"} : Reader(o) = EmptyStr)
        => url = PyStr(<<"m", "y", "s", "q", "l", "+", "p", "y", "m", "y", "s", "q", "l", ":", "/", "/", "c", "t", "f", "d", "@", "d", "b", "/", "c", "t", "f", "d">>)

C3_Sqlite(url) ==
  IsStr(url) /\ StartsWith(url.s, <<"s", "q", "l", "i", "t", "e", ":", "/", "/", "/">>) /\ EndsWith(url.s, <<"c", "t", "f", "d", ".", "d", "b">>)

\* C3, as stated: DATABASE_URL is the reader's value of server.DATABASE_URL
\* whenever that value is non-empty; otherwise the composed URL when
\* server.DATABASE_HOST is set; otherwise the sqlite path ending in ctfd.db.
\* SQLALCHEMY_DATABASE_URI equals DATABASE_URL.
C3_NonEmptyUrlWins ==
  "DATABASE_URL" \in DOMAIN cfg =>
    /\ IF Reader("DATABASE_URL") # EmptyStr THEN cfg["DATABASE_URL"] = Reader("DATABASE_URL")
       ELSE IF Reader("DATABASE_HOST") # EmptyStr THEN C3_ComposedFrom(cfg["DATABASE_URL"])
       ELSE C3_Sqlite(cfg["DATABASE_URL"])
    /\ "SQLALCHEMY_DATABASE_URI" \in DOMAIN cfg =>
         cfg["SQLALCHEMY_DATABASE_URI"] = cfg["DATABASE_URL"]

\* C3, amended: DATABASE_URL is the reader's value of server.DATABASE_URL
\* whenever that value is truthy; a reader value that is empty or falsy (the
\* integer 0 or the boolean false that the environment values "0", "off" and the
\* like are coerced to) falls through to the composed URL when
\* server.DATABASE_HOST is set and to the sqlite path otherwise.
\* SQLALCHEMY_DATABASE_URI equals DATABASE_URL.
C3_TruthyUrlWins ==
  "DATABASE_URL" \in DOMAIN cfg =>
    /\ IF Truthy(Reader("DATABASE_URL")) THEN cfg["DATABASE_URL"] = Reader("DATABASE_URL")
       ELSE IF Reader("DATABASE_HOST") # EmptyStr THEN C3_ComposedFrom(cfg["DATABASE_URL"])
       ELSE C3_Sqlite(cfg["DATABASE_URL"])
    /\ "SQLALCHEMY_DATABASE_URI" \in DOMAIN cfg =>
         cfg["SQLALCHEMY_DATABASE_URI"] = cfg["DATABASE_URL"]

\* C3 witness: only the host is set, and the URL is composed with the defaults
C3_Witness ==
  /\ "SQLALCHEMY_DATABASE_URI" \in DOMAIN cfg
  /\ Reader("DATABASE_URL") = EmptyStr
  /\ Reader("DATABASE_HOST") = PyStr(<<"d", "b">>)
  /\ cfg["DATABASE_URL"] = PyStr(<<"m", "y", "s", "q", "l", "+", "p", "y", "m", "y", "s", "q", "l", ":", "/", "/", "c", "t", "f", "d", "@", "d", "b", "/", "c", "t", "f", "d">>)

\* the reader's value of a REDIS_* option rendered as text, or its default
RedisText(o, default) == IF Reader(o) = EmptyStr THEN default ELSE str(Reader(o)).s

\* protocol://[user[:password]@]host:port/db, the user, the ":password" and the
\* "@" left out when there is neither user nor password
C4_Composed ==
  RedisText("REDIS_PROTOCOL", <<"r", "e", "d", "i", "s">>) \o <<":", "/", "/">>
  \o RedisText("REDIS_USER", <<>>)
  \o (IF Reader("REDIS_PASSWORD") = EmptyStr THEN <<>>
      ELSE <<":">> \o RedisText("REDIS_PASSWORD", <<>>))
  \o (IF Reader("REDIS_USER") = EmptyStr /\ Reader("REDIS_PASSWORD") = EmptyStr
      THEN <<>> ELSE <<"@">>)
  \o RedisText("REDIS_HOST", <<>>) \o <<":">> \o RedisText("REDIS_PORT", <<"6", "3", "7", "9">>)
  \o <<"/">> \o RedisText("REDIS_DB", <<"0">>)

\* C4: CACHE_REDIS_URL is REDIS_URL itself (None when that is unset) when
\* REDIS_URL is set or REDIS_HOST is unset; otherwise it is
\* protocol://[user[:password]@]host:port/db with the user, the ":password" and
\* the "@" left out when they are absent, the defaults being redis, 6379 and 0.
C4_CacheUrlOmitsAbsentUserinfo ==
  "CACHE_REDIS_URL" \in DOMAIN cfg =>
    IF Reader("REDIS_URL") # EmptyStr \/ Reader("REDIS_HOST") = EmptyStr
    THEN cfg["CACHE_REDIS_URL"] = (IF Reader("REDIS_URL") = EmptyStr THEN None
                                   ELSE Reader("REDIS_URL"))
    ELSE cfg["CACHE_REDIS_URL"] = PyStr(C4_Composed)

\* C5: a turn of the merge loop changes no attribute the object already has; an
\* extra key naming such an attribute ends resolution with the conflict error
\* and leaves the object as it was; any other key is set to the value read; and
\* a resolution that completes has set every key of the extra section.
C5_ExtraNeverOverwrites ==
  /\ [][(pc = "extra" /\ items # <<>>) =>
          /\ \A a \in DOMAIN cfg : a \in DOMAIN cfg' /\ cfg'[a] = cfg[a]
          /\ Head(items).k \in DOMAIN cfg =>
               pc' = "failed" /\ exc' = Raise("ValueError") /\ cfg' = cfg
          /\ Head(items).k \notin DOMAIN cfg \cup ObjectAttributes =>
               /\ pc' = "extra"
               /\ Head(items).k \in DOMAIN cfg'
               /\ cfg'[Head(items).k] = Head(items).v]_vars
  /\ [](pc = "done" =>
          \A i \in DOMAIN ini.extra :
            /\ ini.extra[i].k \in DOMAIN cfg
            /\ ini.extra[i].k \notin ObjectAttributes)

\* C5 witness: the extra section names SECRET_KEY, resolution has stopped with
\* the conflict error and SECRET_KEY is still the resolved one
C5_Witness ==
  /\ pc = "failed" /\ exc = Raise("ValueError")
  /\ items # <<>> /\ Head(items).k = "SECRET_KEY"
  /\ cfg["SECRET_KEY"] = PyStr(<<"k", "e", "y">>)

\* C6, as stated: every value copied from the extra section is the string
\* stored in the file, also when that string is empty and the environment sets
\* a variable of the same name.
C6_ExtraValuesAreStoredStrings ==
  pc = "done" =>
    \A i \in DOMAIN ini.extra : cfg[ini.extra[i].k] = PyStr(ini.extra[i].v)

\* C6, amended: every value copied from the extra section is the reader's value
\* of the key: the stored string when it is non-empty (and holds no "%"); the
\* coerced value of the environment variable of the same name when the stored
\* string is empty and that variable is set and non-empty ("42" gives 42); the
\* empty string otherwise.
C6_ExtraValuesAreReaderValues ==
  pc = "done" =>
    \A i \in DOMAIN ini.extra :
      LET k == ini.extra[i].k
          v == ini.extra[i].v
      IN /\ (v # <<>> /\ ~HasChar(v, "%")) => cfg[k] = PyStr(v)
         /\ (v = <<>> /\ EnvSet(k)) =>
              /\ cfg[k] = process_string_var(PyStr(env[k]), k)
              /\ env[k] = <<"4", "2">> => cfg[k] = PyInt(42)
         /\ (v = <<>> /\ ~EnvSet(k)) => cfg[k] = EmptyStr

\* C6 witness: an empty extra option took the coerced value of its variable
C6_Witness ==
  /\ pc = "done"
  /\ \E i \in DOMAIN ini.extra : ini.extra[i] = [k |-> "MY_CUSTOM_OPTION", v |-> <<>>]
  /\ EnvSet("MY_CUSTOM_OPTION")
  /\ cfg["MY_CUSTOM_OPTION"] = PyInt(42)

GivenText(o) ==
  IF ini.optional[o] # <<>> THEN ini.optional[o]
  ELSE IF EnvSet(o) THEN env[o]
  ELSE <<>>

BooleanDefault(o) == PyBool(o # "SQLALCHEMY_TRACK_MODIFICATIONS")

\* the optional fields have been resolved, or resolution failed on them
OptionalReached == "TRUSTED_PROXIES" \in DOMAIN cfg /\ pc # "OPTIONAL"

\* C8: each boolean optional option resolves to its default when the value read
\* is the empty string, to True for a truthy token and to False for a falsy
\* token, in any case, stored or supplied by the environment over an empty
\* stored value; any other string is a ValueError and nothing else.
C8_BooleanOptionsParseTokens ==
  OptionalReached =>
    \A o \in BooleanOptions \cap DOMAIN ini.optional :
      LET text == GivenText(o)
      IN /\ (text = <<>> /\ pc # "failed") => cfg[o] = BooleanDefault(o)
         /\ lower(text) \in TruthyTokens => (pc # "failed" /\ cfg[o] = PyBool(TRUE))
         /\ lower(text) \in FalsyTokens => (pc # "failed" /\ cfg[o] = PyBool(FALSE))
         /\ (text # <<>> /\ lower(text) \notin TruthyTokens \cup FalsyTokens) =>
              (pc = "failed" /\ exc = Raise("ValueError"))

SecurityOptions ==
  {"SESSION_COOKIE_HTTPONLY", "SESSION_COOKIE_SAMESITE", "PERMANENT_SESSION_LIFETIME",
   "CROSS_ORIGIN_OPENER_POLICY", "TRUSTED_HOSTS"}

SecurityDefault ==
  [SESSION_COOKIE_HTTPONLY |-> PyBool(TRUE),
   SESSION_COOKIE_SAMESITE |-> PyStr(<<"L", "a", "x">>),
   PERMANENT_SESSION_LIFETIME |-> PyInt(604800),
   CROSS_ORIGIN_OPENER_POLICY |-> PyStr(<<"s", "a", "m", "e", "-", "o", "r", "i", "g", "i", "n", "-", "a", "l", "l", "o", "w", "-", "p", "o", "p", "u", "p", "s">>),
   TRUSTED_HOSTS |-> PyList(<<>>)]

\* a security option that is absent or empty, with no variable of its name
SecurityUnset(o) ==
  /\ o \notin DOMAIN ini.security \/ ini.security[o] = <<>>
  /\ o \notin DOMAIN env

\* the security fields have been resolved, or resolution failed on them
SecurityReached == "CACHE_TYPE" \in DOMAIN cfg /\ pc # "SECURITY"

\* C9: every security option that is unset (empty or absent, no variable of its
\* name) resolves to its default, resolution does not fail when the security
\* options are unset, and a TRUSTED_HOSTS that is set is split at the commas
\* with each entry trimmed.
C9_UnsetSecurityOptionsDefault ==
  SecurityReached =>
    /\ (\A o \in SecurityOptions : SecurityUnset(o)) => "TRUSTED_PROXIES" \in DOMAIN cfg
    /\ "TRUSTED_PROXIES" \in DOMAIN cfg =>
         /\ \A o \in SecurityOptions : SecurityUnset(o) => cfg[o] = SecurityDefault[o]
         /\ ("TRUSTED_HOSTS" \in DOMAIN ini.security
             /\ ini.security["TRUSTED_HOSTS"] = <<"a", ".", "b", " ", ",", " ", "c">>) =>
              cfg["TRUSTED_HOSTS"] = PyList(<<<<"a", ".", "b">>, <<"c">>>>)

\* C10, as stated: CACHE_TYPE is redis exactly when CACHE_REDIS_URL is truthy,
\* and otherwise filesystem with the fixed CACHE_DIR and CACHE_THRESHOLD 0; so
\* the backend is filesystem when REDIS_URL and REDIS_HOST are both unset and
\* redis when either is set.
C10_RedisWhenEitherSet ==
  "CACHE_TYPE" \in DOMAIN cfg =>
    /\ cfg["CACHE_TYPE"] = PyStr(<<"r", "e", "d", "i", "s">>) <=> Truthy(cfg["CACHE_REDIS_URL"])
    /\ ~Truthy(cfg["CACHE_REDIS_URL"]) =>
         /\ cfg["CACHE_TYPE"] = PyStr(<<"f", "i", "l", "e", "s", "y", "s", "t", "e", "m">>)
         /\ cfg["CACHE_DIR"] = PyStr(ModuleDir \o <<"/", ".", ".", "/", ".", "d", "a", "t", "a", "/", "f", "i", "l", "e", "s", "y", "s", "t", "e", "m", "_", "c", "a", "c", "h", "e">>)
         /\ cfg["CACHE_THRESHOLD"] = PyInt(0)
    /\ (Reader("REDIS_URL") = EmptyStr /\ Reader("REDIS_HOST") = EmptyStr) =>
         cfg["CACHE_TYPE"] = PyStr(<<"f", "i", "l", "e", "s", "y", "s", "t", "e", "m">>)
    /\ (Reader("REDIS_URL") # EmptyStr \/ Reader("REDIS_HOST") # EmptyStr) =>
         cfg["CACHE_TYPE"] = PyStr(<<"r", "e", "d", "i", "s">>)

\* C10, amended: CACHE_TYPE is redis exactly when CACHE_REDIS_URL is truthy, and
\* otherwise filesystem with the fixed CACHE_DIR and CACHE_THRESHOLD 0; so the
\* backend is redis when REDIS_HOST is set or REDIS_URL is truthy, and
\* filesystem otherwise: with REDIS_HOST unset, a REDIS_URL that is unset or
\* that the environment gives as "0" or a false token (coerced to 0 or False)
\* leaves the backend filesystem.
C10_RedisWhenHostSetOrUrlTruthy ==
  "CACHE_TYPE" \in DOMAIN cfg =>
    /\ cfg["CACHE_TYPE"] = PyStr(<<"r", "e", "d", "i", "s">>) <=> Truthy(cfg["CACHE_REDIS_URL"])
    /\ ~Truthy(cfg["CACHE_REDIS_URL"]) =>
         /\ cfg["CACHE_TYPE"] = PyStr(<<"f", "i", "l", "e", "s", "y", "s", "t", "e", "m">>)
         /\ cfg["CACHE_DIR"] = PyStr(ModuleDir \o <<"/", ".", ".", "/", ".", "d", "a", "t", "a", "/", "f", "i", "l", "e", "s", "y", "s", "t", "e", "m", "_", "c", "a", "c", "h", "e">>)
         /\ cfg["CACHE_THRESHOLD"] = PyInt(0)
    /\ (~Truthy(Reader("REDIS_URL")) /\ Reader("REDIS_HOST") = EmptyStr) =>
         cfg["CACHE_TYPE"] = PyStr(<<"f", "i", "l", "e", "s", "y", "s", "t", "e", "m">>)
    /\ (Truthy(Reader("REDIS_URL")) \/ Reader("REDIS_HOST") # EmptyStr) =>
         cfg["CACHE_TYPE"] = PyStr(<<"r", "e", "d", "i", "s">>)

\* C10 witness: REDIS_URL is unset, REDIS_HOST is set, the backend is redis
C10_Witness ==
  /\ "CACHE_TYPE" \in DOMAIN cfg
  /\ Reader("REDIS_URL") = EmptyStr
  /\ Reader("REDIS_HOST") = PyStr(<<"c", "a", "c", "h", "e">>)
  /\ cfg["CACHE_TYPE"] = PyStr(<<"r", "e", "d", "i", "s">>)

====
